---- MODULE Spec2Model ----
(***************************************************************************)
(* The stream orchestration engine of app.py: one StreamManager (engine),  *)
(* the playlist_monitor thread, the resource_monitor thread and the        *)
(* control requests, which the event loop runs one at a time.  Threads     *)
(* interleave between any two accesses of the engine's attributes; only    *)
(* the bodies of the two `with self.lock` blocks exclude one another.      *)
(***************************************************************************)
EXTENDS Integers, Sequences, FiniteSets, TLC

\* ---------------------------------------------------------------- bounds
\* Most running transcoders that have lost their handle at one time.
MaxOrphans == 1

\* ------------------------------------------------------ program constants
\* Python's None (an absent handle, url, group id).
None == 0
\* resource_monitor: `if mem > 85`.
MemThreshold == 85

\* ------------------------------------------------------------ input sets
\* Media ids of the store; the url of media item i is MediaUrl(i).
Ids == {1, 2}
MediaUrl(i) == 10 + i
\* The urls a Start-by-source request may carry.
SoloUrls == {20}
Urls == {MediaUrl(i) : i \in Ids} \cup SoloUrls
\* Group names a request may carry; only StoredGroups are ever saved.
StoredGroups == {"g1"}
GroupIds == {"g1", "g2"}
\* The id lists manage_groups may save.
GroupLists == {<<1, 2>>, <<2>>}
\* database.json as the engine finds it: one media item, one group naming it
\* and an id the store does not hold.
InitMedia == <<[id |-> 1, url |-> MediaUrl(1)]>>
InitGroups == [g \in StoredGroups |-> <<1, 2>>]
\* Memory utilisation samples (per cent).
MemSamples == {50, 85, 92}

Threads == {"mon", "api", "res"}

VARIABLES
    process,          \* self.process: None, or the url its transcoder plays
    proc_alive,       \* whether the process behind the handle still runs
    orphans,          \* running transcoders no handle refers to
    active_metadata,  \* self.active_metadata: [status, current]
    lock,             \* self.lock: "free" or the thread holding it
    stop_signal,      \* self.stop_signal
    playlist_queue,   \* self.playlist_queue
    current_index,    \* self.current_index
    is_looping,       \* self.is_looping
    db_media,         \* database.json "media": sequence of [id, url]
    db_groups,        \* database.json "groups": name -> id list
    pc,               \* each thread's position in its code
    url,              \* the url argument of the thread's start_ffmpeg call
    m_idx,            \* playlist_monitor: a value of current_index it has read
    m_target,         \* playlist_monitor: target_id
    m_q,              \* playlist_monitor: the list object read for line 123
    mem,              \* resource_monitor: mem, None once the sample is spent
    a_req,            \* the control request being served: its StreamConfig
    s_status,         \* get_status: the "status" value it has read
    g_mode,           \* history: the last control request, once it returned
    g_last,           \* history: url of the scheduler's last launch since then
    g_finished,       \* history: the scheduler emptied the queue since then
    g_guard,          \* history: the resource guard stopped the engine since then
    g_raced,          \* history: a launch succeeded while another thread was
                      \*   between the kill_ffmpeg and the lock of its start_ffmpeg
    g_failed          \* history: the launch of the scheduler's tick failed

vars == <<process, proc_alive, orphans, active_metadata, lock, stop_signal,
          playlist_queue, current_index, is_looping, db_media, db_groups,
          pc, url, m_idx, m_target, m_q, mem, a_req, s_status,
          g_mode, g_last, g_finished,
          g_guard, g_raced, g_failed>>

engine_vars == <<process, proc_alive, orphans, active_metadata, lock>>
queue_vars == <<stop_signal, playlist_queue, current_index, is_looping>>
db_vars == <<db_media, db_groups>>
mon_vars == <<m_idx, m_target, m_q>>
res_vars == <<mem>>
start_vars == <<g_raced, g_failed>>
hist_vars == <<g_mode, g_last, g_finished, g_guard>>

NoReq == [kind |-> "none", url |-> None, loop |-> FALSE, ids |-> <<>>]

\* ------------------------------------------------------------- helpers
\* StreamManager._get_video_url: the url of the first record with this id.
RECURSIVE Lookup(_, _, _)
Lookup(media, video_id, k) ==
    IF k > Len(media) THEN None
    ELSE IF media[k].id = video_id THEN media[k].url
    ELSE Lookup(media, video_id, k + 1)

_get_video_url(video_id) == Lookup(db_media, video_id, 1)

MediaIdsOf(media) == {media[k].id : k \in 1..Len(media)}

\* Where a thread goes when its kill_ffmpeg call returns.
AfterKill(t) ==
    IF t = "mon" THEN "p_lock"
    ELSE IF t = "res" THEN "r166"
    ELSE IF a_req.kind = "url" THEN "p_lock"
    ELSE "idle"

\* Where a thread goes when its start_ffmpeg call returns.
AfterStart(t) == IF t = "mon" THEN "m128" ELSE "idle"

\* The history once a control request has returned: "group", "url" or "stop"
\* for a Start by group id, a Start by source url or a Stop that ran to its
\* end, "notfound" for a Start that raised the 404 of line 215, "noop" for a
\* Start with neither group id nor url, "other" for every other request.
Returned(kind) ==
    /\ g_mode' = kind
    /\ g_last' = None
    /\ g_finished' = FALSE
    /\ g_guard' = FALSE

\* The history while a control request runs.
Requested ==
    /\ g_mode' = "busy"
    /\ g_last' = None
    /\ g_finished' = FALSE
    /\ g_guard' = FALSE

\* The scheduler's acts are recorded from the return of a Start or a Stop to
\* the next control request.
Recording == g_mode \in {"group", "url", "stop"}

Init ==
    /\ process = None
    /\ proc_alive = FALSE
    /\ orphans = 0
    /\ active_metadata = [status |-> "IDLE", current |-> None]
    /\ lock = "free"
    /\ stop_signal = FALSE
    /\ playlist_queue = <<>>
    /\ current_index = 0
    /\ is_looping = FALSE
    /\ db_media = InitMedia
    /\ db_groups = InitGroups
    /\ pc = [t \in Threads |-> IF t = "mon" THEN "m111" ELSE IF t = "res" THEN "r162" ELSE "idle"]
    /\ url = [t \in Threads |-> None]
    /\ m_idx = None
    /\ m_target = None
    /\ m_q = <<>>
    /\ mem = None
    /\ a_req = NoReq
    /\ s_status = ""
    /\ g_mode = "other"
    /\ g_last = None
    /\ g_finished = FALSE
    /\ g_guard = FALSE
    /\ g_raced = FALSE
    /\ g_failed = FALSE

\* ------------------------------------------------ StreamManager.kill_ffmpeg
\* `with self.lock:` (line 66).
kill_lock(t) ==
    /\ pc[t] = "k_lock"
    /\ lock = "free"
    /\ lock' = t
    /\ pc' = [pc EXCEPT ![t] = IF process /= None THEN "k_term" ELSE "k_idle"]
    /\ UNCHANGED <<process, proc_alive, orphans, active_metadata>>
    /\ UNCHANGED <<queue_vars, db_vars, mon_vars, res_vars, hist_vars, url, a_req>>
    /\ UNCHANGED <<s_status, start_vars>>

\* `self.process.send_signal(signal.SIGTERM)` (line 69): the process exits in
\* the grace period, or not.
kill_term(t) ==
    /\ pc[t] = "k_term"
    /\ \E exits \in BOOLEAN : proc_alive' = (proc_alive /\ ~exits)
    /\ pc' = [pc EXCEPT ![t] = "k_wait"]
    /\ UNCHANGED <<process, orphans, active_metadata, lock>>
    /\ UNCHANGED <<queue_vars, db_vars, mon_vars, res_vars, hist_vars, url, a_req>>
    /\ UNCHANGED <<s_status, start_vars>>

\* A wait without a timeout: it returns when the process has exited.
kill_wait_unbounded(t) ==
    /\ pc[t] = "k_wait"
    /\ ~proc_alive
    /\ pc' = [pc EXCEPT ![t] = "k_none"]
    /\ UNCHANGED <<process, proc_alive, orphans, active_metadata, lock>>
    /\ UNCHANGED <<queue_vars, db_vars, mon_vars, res_vars, hist_vars, url, a_req>>
    /\ UNCHANGED <<s_status, start_vars>>

\* `self.process.wait(timeout=5)` (lines 70-72): it returns when the process
\* has exited, and raises TimeoutExpired at the end of the 5 seconds when it
\* has not.
kill_wait(t) ==
    /\ pc[t] = "k_wait"
    /\ pc' = [pc EXCEPT ![t] = IF proc_alive THEN "k_kill" ELSE "k_none"]
    /\ UNCHANGED <<process, proc_alive, orphans, active_metadata, lock>>
    /\ UNCHANGED <<queue_vars, db_vars, mon_vars, res_vars, hist_vars, url, a_req>>
    /\ UNCHANGED <<s_status, start_vars>>

\* `except subprocess.TimeoutExpired: self.process.kill()` (lines 72-73).
kill_force(t) ==
    /\ pc[t] = "k_kill"
    /\ proc_alive' = FALSE
    /\ pc' = [pc EXCEPT ![t] = "k_none"]
    /\ UNCHANGED <<process, orphans, active_metadata, lock>>
    /\ UNCHANGED <<queue_vars, db_vars, mon_vars, res_vars, hist_vars, url, a_req>>
    /\ UNCHANGED <<s_status, start_vars>>

\* A stop that forgets to drop the handle.
kill_handle_kept(t) ==
    /\ pc[t] = "k_none"
    /\ pc' = [pc EXCEPT ![t] = "k_idle"]
    /\ UNCHANGED <<process, proc_alive, orphans, active_metadata, lock>>
    /\ UNCHANGED <<queue_vars, db_vars, mon_vars, res_vars, hist_vars, url, a_req>>
    /\ UNCHANGED <<s_status, start_vars>>

\* `self.process = None` (line 74).
kill_handle(t) ==
    /\ pc[t] = "k_none"
    /\ process' = None
    /\ pc' = [pc EXCEPT ![t] = "k_idle"]
    /\ UNCHANGED <<proc_alive, orphans, active_metadata, lock>>
    /\ UNCHANGED <<queue_vars, db_vars, mon_vars, res_vars, hist_vars, url, a_req>>
    /\ UNCHANGED <<s_status, start_vars>>

\* active_metadata["status"] = "IDLE" (line 75).
kill_idle(t) ==
    /\ pc[t] = "k_idle"
    /\ active_metadata' = [active_metadata EXCEPT !.status = "IDLE"]
    /\ pc' = [pc EXCEPT ![t] = "k_cur"]
    /\ UNCHANGED <<process, proc_alive, orphans, lock>>
    /\ UNCHANGED <<queue_vars, db_vars, mon_vars, res_vars, hist_vars, url, a_req>>
    /\ UNCHANGED <<s_status, start_vars>>

\* active_metadata["current"] = None, the lock is released (line 76); a control
\* request whose last call this is returns.
kill_current(t) ==
    /\ pc[t] = "k_cur"
    /\ active_metadata' = [active_metadata EXCEPT !.current = None]
    /\ lock' = "free"
    /\ pc' = [pc EXCEPT ![t] = AfterKill(t)]
    /\ IF t = "api" /\ AfterKill(t) = "idle"
       THEN Returned(a_req.kind) /\ a_req' = NoReq
       ELSE /\ g_guard' = (g_guard \/ (t = "res" /\ Recording))
            /\ UNCHANGED <<g_mode, g_last, g_finished, a_req>>
    /\ UNCHANGED <<process, proc_alive, orphans>>
    /\ UNCHANGED <<queue_vars, db_vars, mon_vars, res_vars, url>>
    /\ UNCHANGED <<s_status, start_vars>>

\* send_signal, wait or kill raises an error other than TimeoutExpired (lines
\* 69-73).  kill_ffmpeg catches nothing else: the `with` statement releases
\* the lock, lines 74-76 are not run, and the error goes up the stack.  No
\* caller catches it (start_ffmpeg calls kill_ffmpeg at line 79, before its
\* `try`): a thread ends, a control request fails with status 500.
kill_raise(t) ==
    /\ pc[t] \in {"k_term", "k_wait", "k_kill"}
    /\ lock' = "free"
    /\ pc' = [pc EXCEPT ![t] = IF t = "api" THEN "idle" ELSE "crashed"]
    /\ url' = [url EXCEPT ![t] = None]
    /\ IF t = "api"
       THEN Returned("other") /\ a_req' = NoReq
       ELSE UNCHANGED <<hist_vars, a_req>>
    /\ UNCHANGED <<process, proc_alive, orphans, active_metadata>>
    /\ UNCHANGED <<queue_vars, db_vars, mon_vars, res_vars>>
    /\ UNCHANGED <<s_status, start_vars>>

\* ----------------------------------------------- StreamManager.start_ffmpeg
\* start_ffmpeg begins with self.kill_ffmpeg() (line 79): the thread runs
\* kill_lock .. kill_current and AfterKill sends it on to p_lock.

\* `with self.lock:` (line 97).
start_lock(t) ==
    /\ pc[t] = "p_lock"
    /\ lock = "free"
    /\ lock' = t
    /\ pc' = [pc EXCEPT ![t] = "p_open"]
    /\ UNCHANGED <<process, proc_alive, orphans, active_metadata>>
    /\ UNCHANGED <<queue_vars, db_vars, mon_vars, res_vars, hist_vars, url, a_req>>
    /\ UNCHANGED <<s_status, start_vars>>

\* self.process = subprocess.Popen(cmd, ...) (lines 99-101), the launch
\* succeeding.  The handle is overwritten whatever it held: a transcoder that
\* still runs behind the old handle keeps running without one.
start_popen(t) ==
    /\ pc[t] = "p_open"
    /\ IF process /= None /\ proc_alive
       THEN orphans < MaxOrphans /\ orphans' = orphans + 1
       ELSE orphans' = orphans
    /\ process' = url[t]
    /\ proc_alive' = TRUE
    /\ pc' = [pc EXCEPT ![t] = "p_live"]
    /\ IF t = "mon" /\ Recording
       THEN g_last' = url[t] /\ UNCHANGED <<g_mode, g_finished, g_guard>>
       ELSE UNCHANGED hist_vars
    /\ UNCHANGED <<active_metadata, lock>>
    /\ UNCHANGED <<queue_vars, db_vars, mon_vars, res_vars, url, a_req>>
    /\ g_raced' = (\E u \in Threads \ {t} : pc[u] = "p_lock")
    /\ UNCHANGED <<s_status, g_failed>>

\* A failure path that marks the engine LIVE all the same.
start_fail_live(t) ==
    /\ pc[t] = "p_open"
    /\ lock' = "free"
    /\ pc' = [pc EXCEPT ![t] = AfterStart(t)]
    /\ url' = [url EXCEPT ![t] = None]
    /\ IF t = "api"
       THEN Returned(a_req.kind) /\ a_req' = NoReq
       ELSE /\ g_last' = IF Recording THEN url[t] ELSE g_last
            /\ UNCHANGED <<g_mode, g_finished, g_guard, a_req>>
    /\ active_metadata' = [active_metadata EXCEPT !.status = "LIVE"]
    /\ UNCHANGED <<process, proc_alive, orphans>>
    /\ UNCHANGED <<queue_vars, db_vars, mon_vars, res_vars>>
    /\ g_raced' = FALSE
    /\ g_failed' = (t = "mon")
    /\ UNCHANGED s_status

\* Popen raises; `except Exception` logs it (lines 105-106) and the call
\* returns normally, the lock released, nothing else written.
start_fail(t) ==
    /\ pc[t] = "p_open"
    /\ lock' = "free"
    /\ pc' = [pc EXCEPT ![t] = AfterStart(t)]
    /\ url' = [url EXCEPT ![t] = None]
    /\ IF t = "api"
       THEN Returned(a_req.kind) /\ a_req' = NoReq
       ELSE /\ g_last' = IF Recording THEN url[t] ELSE g_last
            /\ UNCHANGED <<g_mode, g_finished, g_guard, a_req>>
    /\ UNCHANGED <<process, proc_alive, orphans, active_metadata>>
    /\ UNCHANGED <<queue_vars, db_vars, mon_vars, res_vars>>
    /\ g_raced' = FALSE
    /\ g_failed' = (t = "mon")
    /\ UNCHANGED s_status

\* active_metadata["status"] = "LIVE" (line 102).
start_live(t) ==
    /\ pc[t] = "p_live"
    /\ active_metadata' = [active_metadata EXCEPT !.status = "LIVE"]
    /\ pc' = [pc EXCEPT ![t] = "p_cur"]
    /\ UNCHANGED <<process, proc_alive, orphans, lock>>
    /\ UNCHANGED <<queue_vars, db_vars, mon_vars, res_vars, hist_vars, url, a_req>>
    /\ UNCHANGED <<s_status, start_vars>>

\* active_metadata["current"] = url, the lock is released (lines 103-104).
start_current(t) ==
    /\ pc[t] = "p_cur"
    /\ active_metadata' = [active_metadata EXCEPT !.current = url[t]]
    /\ lock' = "free"
    /\ pc' = [pc EXCEPT ![t] = AfterStart(t)]
    /\ url' = [url EXCEPT ![t] = None]
    /\ IF t = "api"
       THEN Returned(a_req.kind) /\ a_req' = NoReq
       ELSE UNCHANGED <<hist_vars, a_req>>
    /\ UNCHANGED <<process, proc_alive, orphans>>
    /\ UNCHANGED <<queue_vars, db_vars, mon_vars, res_vars>>
    /\ UNCHANGED <<s_status, start_vars>>

\* --------------------------------------------------- the transcoders
\* The transcoder behind the handle exits by itself (end of input, crash).
ProcessExit ==
    /\ process /= None
    /\ proc_alive
    /\ proc_alive' = FALSE
    /\ UNCHANGED <<process, orphans, active_metadata, lock>>
    /\ UNCHANGED <<queue_vars, db_vars, mon_vars, res_vars, hist_vars, pc, url, a_req>>
    /\ UNCHANGED <<s_status, start_vars>>

\* A transcoder without a handle exits by itself.
OrphanExit ==
    /\ orphans > 0
    /\ orphans' = orphans - 1
    /\ UNCHANGED <<process, proc_alive, active_metadata, lock>>
    /\ UNCHANGED <<queue_vars, db_vars, mon_vars, res_vars, hist_vars, pc, url, a_req>>
    /\ UNCHANGED <<s_status, start_vars>>

\* --------------------------------------- StreamManager.playlist_monitor
\* `if not self.stop_signal` (line 111); a false test ends the iteration,
\* and after time.sleep(3) the next one starts at line 111 again.
mon_check_signal ==
    /\ pc["mon"] = "m111"
    /\ pc' = [pc EXCEPT !["mon"] = IF stop_signal THEN "m111" ELSE "m111q"]
    /\ UNCHANGED <<engine_vars, queue_vars, db_vars, mon_vars, res_vars, hist_vars, url, a_req>>
    /\ UNCHANGED <<s_status, start_vars>>

\* `and self.playlist_queue` (line 111).
mon_check_queue ==
    /\ pc["mon"] = "m111q"
    /\ pc' = [pc EXCEPT !["mon"] = IF playlist_queue = <<>> THEN "m111" ELSE "m113"]
    /\ UNCHANGED <<engine_vars, queue_vars, db_vars, mon_vars, res_vars, hist_vars, url, a_req>>
    /\ UNCHANGED <<s_status, start_vars>>

\* `if not self.process` (line 113).
mon_check_process ==
    /\ pc["mon"] = "m113"
    /\ pc' = [pc EXCEPT !["mon"] = IF process = None THEN "m114" ELSE "m113p"]
    /\ UNCHANGED <<engine_vars, queue_vars, db_vars, mon_vars, res_vars, hist_vars, url, a_req>>
    /\ UNCHANGED <<s_status, start_vars>>

\* `or self.process.poll() is not None` (line 113): self.process is read again;
\* None has no poll (AttributeError, which nothing in the thread catches).
mon_poll ==
    /\ pc["mon"] = "m113p"
    /\ pc' = [pc EXCEPT !["mon"] =
                 IF process = None THEN "crashed"
                 ELSE IF proc_alive THEN "m111"
                 ELSE "m114"]
    /\ UNCHANGED <<engine_vars, queue_vars, db_vars, mon_vars, res_vars, hist_vars, url, a_req>>
    /\ UNCHANGED <<s_status, start_vars>>

\* `self.current_index` of line 114 is read.
mon_read_index ==
    /\ pc["mon"] = "m114"
    /\ m_idx' = current_index
    /\ pc' = [pc EXCEPT !["mon"] = "m114l"]
    /\ UNCHANGED <<res_vars, engine_vars, queue_vars, db_vars, m_target, m_q, hist_vars, url, a_req>>
    /\ UNCHANGED <<s_status, start_vars>>

\* `>= len(self.playlist_queue)` (line 114).
mon_compare_len ==
    /\ pc["mon"] = "m114l"
    /\ pc' = [pc EXCEPT !["mon"] = IF m_idx >= Len(playlist_queue) THEN "m115" ELSE "m123"]
    /\ m_idx' = None
    /\ UNCHANGED <<res_vars, engine_vars, queue_vars, db_vars, m_target, m_q, hist_vars, url, a_req>>
    /\ UNCHANGED <<s_status, start_vars>>

\* `if self.is_looping:` (line 115).
mon_check_loop ==
    /\ pc["mon"] = "m115"
    /\ pc' = [pc EXCEPT !["mon"] = IF is_looping THEN "m116" ELSE "m119"]
    /\ UNCHANGED <<engine_vars, queue_vars, db_vars, mon_vars, res_vars, hist_vars, url, a_req>>
    /\ UNCHANGED <<s_status, start_vars>>

\* `self.current_index = 0` (lines 116-117).
mon_loop ==
    /\ pc["mon"] = "m116"
    /\ current_index' = 0
    /\ pc' = [pc EXCEPT !["mon"] = "m123"]
    /\ UNCHANGED <<engine_vars, stop_signal, playlist_queue, is_looping>>
    /\ UNCHANGED <<db_vars, mon_vars, res_vars, hist_vars, url, a_req>>
    /\ UNCHANGED <<s_status, start_vars>>

\* `else: self.playlist_queue = []; continue` (lines 118-121): the next
\* iteration starts without sleeping.
mon_finish ==
    /\ pc["mon"] = "m119"
    /\ playlist_queue' = <<>>
    /\ pc' = [pc EXCEPT !["mon"] = "m111"]
    /\ g_finished' = Recording
    /\ UNCHANGED <<engine_vars, stop_signal, current_index, is_looping>>
    /\ UNCHANGED <<db_vars, mon_vars, res_vars, g_mode, g_last, g_guard, url, a_req>>
    /\ UNCHANGED <<s_status, start_vars>>

\* `self.playlist_queue` of line 123 is read (a reference to the list).
mon_read_queue ==
    /\ pc["mon"] = "m123"
    /\ m_q' = playlist_queue
    /\ pc' = [pc EXCEPT !["mon"] = "m123i"]
    /\ UNCHANGED <<res_vars, engine_vars, queue_vars, db_vars, m_idx, m_target, hist_vars, url, a_req>>
    /\ UNCHANGED <<s_status, start_vars>>

\* `target_id = <list>[self.current_index]` (line 123): an index past the
\* list's end raises IndexError, which nothing in the thread catches.
mon_subscript ==
    /\ pc["mon"] = "m123i"
    /\ IF current_index >= Len(m_q)
       THEN /\ pc' = [pc EXCEPT !["mon"] = "crashed"]
            /\ m_target' = None
       ELSE /\ pc' = [pc EXCEPT !["mon"] = "m124"]
            /\ m_target' = m_q[current_index + 1]
    /\ m_q' = <<>>
    /\ UNCHANGED <<res_vars, engine_vars, queue_vars, db_vars, m_idx, hist_vars, url, a_req>>
    /\ UNCHANGED <<s_status, start_vars>>

\* `target_url = self._get_video_url(target_id)`; `if target_url:` sends the
\* thread into start_ffmpeg(target_url), else to line 130 (lines 124-130).
mon_resolve ==
    /\ pc["mon"] = "m124"
    /\ LET target_url == _get_video_url(m_target)
       IN  IF target_url /= None
           THEN /\ url' = [url EXCEPT !["mon"] = target_url]
                /\ pc' = [pc EXCEPT !["mon"] = "k_lock"]
           ELSE /\ url' = url
                /\ pc' = [pc EXCEPT !["mon"] = "m130"]
    /\ m_target' = None
    /\ UNCHANGED <<res_vars, engine_vars, queue_vars, db_vars, m_idx, m_q, hist_vars, a_req>>
    /\ UNCHANGED <<s_status, start_vars>>

\* `self.current_index += 1` (lines 128 and 130) first reads the attribute ...
mon_incr_read ==
    /\ pc["mon"] \in {"m128", "m130"}
    /\ m_idx' = current_index
    /\ pc' = [pc EXCEPT !["mon"] = IF pc["mon"] = "m128" THEN "m128w" ELSE "m130w"]
    /\ UNCHANGED <<res_vars, engine_vars, queue_vars, db_vars, m_target, m_q, hist_vars, url, a_req>>
    /\ UNCHANGED <<s_status, start_vars>>

\* A scheduler that does not advance the cursor past an id it cannot resolve.
mon_incr_write_stalls ==
    /\ pc["mon"] \in {"m128w", "m130w"}
    /\ current_index' = IF pc["mon"] = "m130w" THEN m_idx ELSE m_idx + 1
    /\ m_idx' = None
    /\ pc' = [pc EXCEPT !["mon"] = "m111"]
    /\ UNCHANGED <<engine_vars, stop_signal, playlist_queue, is_looping>>
    /\ UNCHANGED <<res_vars, db_vars, m_target, m_q, hist_vars, url, a_req>>
    /\ g_failed' = FALSE
    /\ UNCHANGED <<s_status, g_raced>>

\* ... and then stores the sum; the iteration ends (time.sleep(3), line 132).
mon_incr_write ==
    /\ pc["mon"] \in {"m128w", "m130w"}
    /\ current_index' = m_idx + 1
    /\ m_idx' = None
    /\ pc' = [pc EXCEPT !["mon"] = "m111"]
    /\ UNCHANGED <<engine_vars, stop_signal, playlist_queue, is_looping>>
    /\ UNCHANGED <<res_vars, db_vars, m_target, m_q, hist_vars, url, a_req>>
    /\ g_failed' = FALSE
    /\ UNCHANGED <<s_status, g_raced>>

\* ------------------------------------------------------ resource_monitor
\* `mem = psutil.virtual_memory().percent` (line 162).  At "r166" the thread
\* is in the time.sleep(60) of line 166 that follows a kill_ffmpeg call; the
\* sleep after a sample that called nothing is part of the step back to
\* "r162".
res_sample ==
    /\ pc["res"] \in {"r162", "r166"}
    /\ \E sample \in MemSamples : mem' = sample
    /\ pc' = [pc EXCEPT !["res"] = "r163"]
    /\ UNCHANGED <<engine_vars, queue_vars, db_vars, mon_vars, hist_vars, url, a_req>>
    /\ UNCHANGED <<s_status, start_vars>>

\* A guard that stops the transcoder at the threshold already.
res_check_eager ==
    /\ pc["res"] = "r163"
    /\ pc' = [pc EXCEPT !["res"] = IF mem >= MemThreshold THEN "k_lock" ELSE "r162"]
    /\ mem' = None
    /\ UNCHANGED <<engine_vars, queue_vars, db_vars, mon_vars, hist_vars, url, a_req>>
    /\ UNCHANGED <<s_status, start_vars>>

\* `if mem > 85: engine.kill_ffmpeg()` (lines 163-165), else the sleep of
\* line 166 and the next iteration.
res_check ==
    /\ pc["res"] = "r163"
    /\ pc' = [pc EXCEPT !["res"] = IF mem > MemThreshold THEN "k_lock" ELSE "r162"]
    /\ mem' = None
    /\ UNCHANGED <<engine_vars, queue_vars, db_vars, mon_vars, hist_vars, url, a_req>>
    /\ UNCHANGED <<s_status, start_vars>>

\* ------------------------------------------------------- control requests
\* The StreamConfig bodies a Start request may carry ("" for no group id).
StreamConfigs == [url : {None} \cup SoloUrls, group_id : {""} \cup GroupIds, loop : BOOLEAN]

\* A handler that resets the cursor before it looks the group up.
start_stream_begin_resets ==
    /\ pc["api"] = "idle"
    /\ stop_signal' = FALSE
    /\ \E config \in StreamConfigs :
          IF config.group_id /= ""
          THEN IF config.group_id \in DOMAIN db_groups
               THEN /\ a_req' = [kind |-> "group", url |-> None, loop |-> config.loop,
                                 ids |-> db_groups[config.group_id]]
                    /\ pc' = [pc EXCEPT !["api"] = "a217"]
                    /\ Requested
               ELSE /\ a_req' = NoReq
                    /\ pc' = pc
                    /\ Returned("notfound")
          ELSE IF config.url /= None
               THEN /\ a_req' = [kind |-> "url", url |-> config.url, loop |-> FALSE,
                                 ids |-> <<>>]
                    /\ pc' = [pc EXCEPT !["api"] = "a224"]
                    /\ Requested
               ELSE /\ a_req' = NoReq
                    /\ pc' = pc
                    /\ Returned("noop")
    /\ current_index' = 0
    /\ UNCHANGED <<engine_vars, playlist_queue, is_looping>>
    /\ UNCHANGED <<db_vars, mon_vars, res_vars, url>>
    /\ UNCHANGED <<s_status, start_vars>>

\* start_stream: `engine.stop_signal = False` (line 210), then the request is
\* told apart: `if config.group_id:` loads the store and raises 404 for an
\* unknown group (lines 212-215); `if config.url:` (line 223); with neither
\* the handler returns None.  Only this thread writes the store, so reading
\* it is one step with line 210.
start_stream_begin ==
    /\ pc["api"] = "idle"
    /\ stop_signal' = FALSE
    /\ \E config \in StreamConfigs :
          IF config.group_id /= ""
          THEN IF config.group_id \in DOMAIN db_groups
               THEN /\ a_req' = [kind |-> "group", url |-> None, loop |-> config.loop,
                                 ids |-> db_groups[config.group_id]]
                    /\ pc' = [pc EXCEPT !["api"] = "a217"]
                    /\ Requested
               ELSE /\ a_req' = NoReq
                    /\ pc' = pc
                    /\ Returned("notfound")
          ELSE IF config.url /= None
               THEN /\ a_req' = [kind |-> "url", url |-> config.url, loop |-> FALSE,
                                 ids |-> <<>>]
                    /\ pc' = [pc EXCEPT !["api"] = "a224"]
                    /\ Requested
               ELSE /\ a_req' = NoReq
                    /\ pc' = pc
                    /\ Returned("noop")
    /\ UNCHANGED <<engine_vars, playlist_queue, current_index, is_looping>>
    /\ UNCHANGED <<db_vars, mon_vars, res_vars, url>>
    /\ UNCHANGED <<s_status, start_vars>>

\* start_stream: `engine.playlist_queue = db["groups"][config.group_id]` (line 217).
start_stream_set_queue ==
    /\ pc["api"] = "a217"
    /\ playlist_queue' = a_req.ids
    /\ pc' = [pc EXCEPT !["api"] = "a218"]
    /\ UNCHANGED <<engine_vars, stop_signal, current_index, is_looping>>
    /\ UNCHANGED <<db_vars, mon_vars, res_vars, hist_vars, url, a_req>>
    /\ UNCHANGED <<s_status, start_vars>>

\* start_stream: `engine.current_index = 0` (line 218).
start_stream_reset_index ==
    /\ pc["api"] = "a218"
    /\ current_index' = 0
    /\ pc' = [pc EXCEPT !["api"] = "a219"]
    /\ UNCHANGED <<engine_vars, stop_signal, playlist_queue, is_looping>>
    /\ UNCHANGED <<db_vars, mon_vars, res_vars, hist_vars, url, a_req>>
    /\ UNCHANGED <<s_status, start_vars>>

\* start_stream: `engine.is_looping = config.loop`, then engine.kill_ffmpeg()
\* (lines 219-220).
start_stream_set_loop ==
    /\ pc["api"] = "a219"
    /\ is_looping' = a_req.loop
    /\ pc' = [pc EXCEPT !["api"] = "k_lock"]
    /\ UNCHANGED <<engine_vars, stop_signal, playlist_queue, current_index>>
    /\ UNCHANGED <<db_vars, mon_vars, res_vars, hist_vars, url, a_req>>
    /\ UNCHANGED <<s_status, start_vars>>

\* start_stream: `engine.playlist_queue = []`, then
\* engine.start_ffmpeg(config.url) (lines 224-225).
start_stream_solo ==
    /\ pc["api"] = "a224"
    /\ playlist_queue' = <<>>
    /\ url' = [url EXCEPT !["api"] = a_req.url]
    /\ pc' = [pc EXCEPT !["api"] = "k_lock"]
    /\ UNCHANGED <<engine_vars, stop_signal, current_index, is_looping>>
    /\ UNCHANGED <<db_vars, mon_vars, res_vars, hist_vars, a_req>>
    /\ UNCHANGED <<s_status, start_vars>>

\* stop_stream: `engine.stop_signal = True` (line 230).
stop_stream_begin ==
    /\ pc["api"] = "idle"
    /\ a_req' = [NoReq EXCEPT !.kind = "stop"]
    /\ stop_signal' = TRUE
    /\ pc' = [pc EXCEPT !["api"] = "a231"]
    /\ Requested
    /\ UNCHANGED <<engine_vars, playlist_queue, current_index, is_looping>>
    /\ UNCHANGED <<db_vars, mon_vars, res_vars, url>>
    /\ UNCHANGED <<s_status, start_vars>>

\* stop_stream: `engine.playlist_queue = []`, then engine.kill_ffmpeg()
\* (lines 231-232).
stop_stream_clear ==
    /\ pc["api"] = "a231"
    /\ playlist_queue' = <<>>
    /\ pc' = [pc EXCEPT !["api"] = "k_lock"]
    /\ UNCHANGED <<engine_vars, stop_signal, current_index, is_looping>>
    /\ UNCHANGED <<db_vars, mon_vars, res_vars, hist_vars, url, a_req>>
    /\ UNCHANGED <<s_status, start_vars>>

\* get_status: `engine.active_metadata["status"]` is read (line 188), without
\* the lock.  A status query is no control request: the history is kept.
get_status_read ==
    /\ pc["api"] = "idle"
    /\ s_status' = active_metadata.status
    /\ pc' = [pc EXCEPT !["api"] = "a189"]
    /\ UNCHANGED <<engine_vars, queue_vars, db_vars, mon_vars, res_vars, hist_vars, start_vars, url, a_req>>

\* get_status: `engine.active_metadata["current"]` is read (line 189) and the
\* pair is returned.
get_status_return ==
    /\ pc["api"] = "a189"
    /\ s_status' = ""
    /\ pc' = [pc EXCEPT !["api"] = "idle"]
    /\ UNCHANGED <<engine_vars, queue_vars, db_vars, mon_vars, res_vars, hist_vars, start_vars, url, a_req>>

\* add_media: the record is appended to the store (lines 202-206).  The ids
\* offered are those the store does not hold yet.
add_media ==
    /\ pc["api"] = "idle"
    /\ \E i \in Ids \ MediaIdsOf(db_media) :
          db_media' = Append(db_media, [id |-> i, url |-> MediaUrl(i)])
    /\ Returned("other")
    /\ UNCHANGED <<engine_vars, queue_vars, db_groups, mon_vars, res_vars, pc, url, a_req>>
    /\ UNCHANGED <<s_status, start_vars>>

\* manage_groups: `db["groups"][g.name] = g.video_ids` (lines 236-240).
manage_groups ==
    /\ pc["api"] = "idle"
    /\ \E name \in StoredGroups, video_ids \in GroupLists :
          db_groups' = [g \in DOMAIN db_groups \cup {name} |->
                           IF g = name THEN video_ids ELSE db_groups[g]]
    /\ Returned("other")
    /\ UNCHANGED <<engine_vars, queue_vars, db_media, mon_vars, res_vars, pc, url, a_req>>
    /\ UNCHANGED <<s_status, start_vars>>

\* ------------------------------------------------------- specification
Next ==
    \/ \E t \in Threads : kill_lock(t)
    \/ \E t \in Threads : kill_term(t)
    \/ \E t \in Threads : kill_wait(t)
    \/ \E t \in Threads : kill_force(t)
    \/ \E t \in Threads : kill_handle(t)
    \/ \E t \in Threads : kill_idle(t)
    \/ \E t \in Threads : kill_current(t)
    \/ \E t \in Threads : start_lock(t)
    \/ \E t \in Threads : start_popen(t)
    \/ \E t \in Threads : start_fail(t)
    \/ \E t \in Threads : start_live(t)
    \/ \E t \in Threads : start_current(t)
    \/ ProcessExit
    \/ OrphanExit
    \/ mon_check_signal
    \/ mon_check_queue
    \/ mon_check_process
    \/ mon_poll
    \/ mon_read_index
    \/ mon_compare_len
    \/ mon_check_loop
    \/ mon_loop
    \/ mon_finish
    \/ mon_read_queue
    \/ mon_subscript
    \/ mon_resolve
    \/ mon_incr_read
    \/ mon_incr_write
    \/ res_sample
    \/ res_check
    \/ start_stream_begin
    \/ start_stream_set_queue
    \/ start_stream_reset_index
    \/ start_stream_set_loop
    \/ start_stream_solo
    \/ stop_stream_begin
    \/ stop_stream_clear
    \/ add_media
    \/ manage_groups

Spec == Init /\ [][Next]_vars

\* The engine where the termination request of kill_ffmpeg may raise.
NextKillError == Next \/ \E t \in Threads : kill_raise(t)

SpecKillError == Init /\ [][NextKillError]_vars

\* The engine with the status queries, which write nothing the engine reads.
NextStatus == Next \/ get_status_read \/ get_status_return

SpecStatus == Init /\ [][NextStatus]_vars

\* ------------------------------------------------------------- claims
\* Running transcoders the engine has launched.
Running == (IF process /= None /\ proc_alive THEN 1 ELSE 0) + orphans

\* No thread is inside one of the two critical sections.
LockFree == lock = "free"

\* C1: in every reachable state at most one transcoder launched by the
\* engine is running, and none runs without a handle that a later stop
\* would terminate.
C1_SingleActiveProcess == Running <= 1 /\ orphans = 0

\* C2: the reported phase is LIVE if and only if the handle is non-null and
\* its process alive -- stated for the states in which no thread is inside a
\* critical section, where the half-written states of kill_ffmpeg and
\* start_ffmpeg are not seen.
C2_LiveIffAlive ==
    LockFree => (active_metadata.status = "LIVE" <=> (process /= None /\ proc_alive))

\* C3: once a Stop request has returned, and until the next control request,
\* auto mode is disabled, the queue is empty, the handle is null, the phase is
\* IDLE and the scheduler has started nothing.
C3_StopIsFinal ==
    g_mode = "stop" =>
        /\ stop_signal
        /\ playlist_queue = <<>>
        /\ g_last = None
        /\ LockFree => (process = None /\ active_metadata.status = "IDLE")

\* C5: in every reachable state 0 <= current_index <= len(playlist_queue).
C5_CursorInRange == 0 <= current_index /\ current_index <= Len(playlist_queue)

\* C6: once the scheduler has emptied a queue started with loop=false, the
\* phase is IDLE and stays IDLE with no process started until the next
\* control request.
C6_FinishedIsIdle ==
    (g_mode = "group" /\ g_finished /\ LockFree) =>
        (active_metadata.status = "IDLE" /\ ~(process /= None /\ proc_alive))

\* C9: the playlist_monitor thread never ends on an uncaught exception
\* (an index past the end of playlist_queue, poll() on a null handle).
C9_MonitorNeverDies == pc["mon"] /= "crashed"

\* C10: once a Start by source url has returned, and until the next control
\* request, the queue is empty and the scheduler starts no process: the
\* handle is null or the single source's.
C10_SoloUntouched ==
    g_mode = "url" =>
        /\ playlist_queue = <<>>
        /\ g_last = None
        /\ LockFree => process \in {None} \cup SoloUrls

\* The positions of queue q (from 1) whose id resolves in the store.
Resolvable(q) == {k \in 1..Len(q) : _get_video_url(q[k]) /= None}

Least(S) == CHOOSE k \in S : \A j \in S : k <= j

\* The url of the first resolvable entry of q, None when q has none.
FirstUrl(q) ==
    IF Resolvable(q) = {} THEN None ELSE _get_video_url(q[Least(Resolvable(q))])

\* The url of the resolvable entry of q that follows, cyclically, the entry
\* whose url is u.
NextUrl(q, u) ==
    LET at == {k \in Resolvable(q) : _get_video_url(q[k]) = u}
        later == {k \in Resolvable(q) : \A j \in at : k > j}
    IN  IF at = {} THEN None
        ELSE IF later /= {} THEN _get_video_url(q[Least(later)])
        ELSE FirstUrl(q)

\* The step in which the scheduler launches a transcoder (the launch
\* succeeds or fails).
SchedulerStarts == pc["mon"] = "p_open" /\ pc'["mon"] /= "p_open"

\* C4: the first item the scheduler starts after a Start by group id has
\* returned is the first resolvable entry of the new queue, under every
\* interleaving with a scheduler iteration already in progress.
C4_FirstStartIsEntryZero ==
    [][(g_mode = "group" /\ g_last = None /\ SchedulerStarts)
          => url["mon"] = FirstUrl(playlist_queue)]_vars

\* C7: after a Start by group id with loop=true has returned, and until the
\* next control request, the scheduler does not change the queue and starts
\* its resolvable items in queue order, cyclically, each one only when no
\* transcoder is alive.
C7_LoopsInOrder ==
    [][(g_mode = "group" /\ is_looping) =>
          /\ playlist_queue' = playlist_queue
          /\ SchedulerStarts =>
                /\ ~proc_alive
                /\ url["mon"] = IF g_last = None THEN FirstUrl(playlist_queue)
                                ELSE NextUrl(playlist_queue, g_last)]_vars

\* The scheduler takes a step.
MonitorSteps == pc'["mon"] /= pc["mon"]

\* After a Start by group id has returned, and until the scheduler first
\* launches something or the next control request begins, the engine is IDLE
\* with no handle.
IdleUntilFirstStart ==
    (g_mode = "group" /\ g_last = None /\ LockFree) =>
        (process = None /\ active_metadata.status = "IDLE")

\* C8: a scheduler tick whose cursor points at an id the store does not
\* resolve goes to the skip branch, where it starts no process, changes
\* neither the handle nor the phase, raises nothing and stores the cursor it
\* read plus one; the tick that then finds the cursor at the end of a queue
\* that does not loop empties the queue and leaves handle and phase alone;
\* so a queue the scheduler only skips through leaves the engine IDLE.
C8_UnresolvedIsSkipped ==
    /\ []IdleUntilFirstStart
    /\ [][MonitorSteps =>
             /\ (pc["mon"] = "m124" /\ _get_video_url(m_target) = None)
                   => (pc'["mon"] = "m130" /\ UNCHANGED <<engine_vars, queue_vars, url>>)
             /\ pc["mon"] = "m130"
                   => (pc'["mon"] = "m130w" /\ UNCHANGED <<engine_vars, queue_vars, url>>)
             /\ pc["mon"] = "m130w"
                   => /\ pc'["mon"] = "m111"
                      /\ current_index' = m_idx + 1
                      /\ UNCHANGED <<engine_vars, stop_signal, playlist_queue, is_looping, url>>
             /\ pc["mon"] = "m119"
                   => /\ pc'["mon"] = "m111"
                      /\ playlist_queue' = <<>>
                      /\ UNCHANGED <<engine_vars, url>>]_vars

\* C8's case: a queue of one unresolvable id, started without loop, has been
\* skipped and emptied by the scheduler, which started nothing; the engine
\* is IDLE with no handle.
C8_Witness ==
    /\ g_mode = "group"
    /\ g_finished
    /\ g_last = None
    /\ ~is_looping
    /\ playlist_queue = <<>>
    /\ current_index = 1
    /\ pc["mon"] = "m111"
    /\ LockFree
    /\ process = None
    /\ active_metadata.status = "IDLE"

\* The resource guard's next sample after a sample above the threshold.
NextSample == pc["res"] = "r166" /\ pc'["res"] /= "r166"

\* C11 as stated: whenever resource_monitor has sampled utilisation above the
\* threshold, at its next sample the transcoder is not alive and the phase
\* is IDLE, in playlist mode with auto mode enabled too -- stated for the
\* samples with no control request since the guard stopped the engine.
C11_IdleAtNextSample ==
    [][(NextSample /\ g_guard /\ LockFree)
          => (active_metadata.status = "IDLE" /\ ~(process /= None /\ proc_alive))]_vars

\* C11 amended: resource_monitor calls kill_ffmpeg exactly when its sample
\* is above the threshold, and that call returns with the handle null, its process
\* terminated, the phase IDLE and the current item null; nothing keeps the
\* engine so until the next sample.
C11_GuardStopsTranscoder ==
    [][/\ (pc["res"] = "r163" /\ pc'["res"] /= "r163")
          => (pc'["res"] = "k_lock" <=> mem > MemThreshold)
       /\ (pc["res"] /= "r166" /\ pc'["res"] = "r166")
          => /\ pc["res"] = "k_cur"
             /\ process' = None
             /\ ~proc_alive'
             /\ active_metadata' = [status |-> "IDLE", current |-> None]
             /\ lock' = "free"]_vars

\* C11's case: after a sample above the threshold and the stop that followed
\* it, the guard sleeps while the transcoder of a playlist item runs again.
C11_Witness ==
    /\ pc["res"] = "r166"
    /\ g_guard
    /\ g_mode = "group"
    /\ ~stop_signal
    /\ LockFree
    /\ process /= None
    /\ proc_alive
    /\ active_metadata.status = "LIVE"

\* The positions of a thread inside kill_ffmpeg.
KillPcs == {"k_lock", "k_term", "k_wait", "k_kill", "k_none", "k_idle", "k_cur"}

\* The step in which thread t's kill_ffmpeg call ends.
KillEnds(t) == pc[t] \in KillPcs /\ pc'[t] \notin KillPcs

\* C12: every call of kill_ffmpeg ends with the phase IDLE, the current item
\* null and no handle, also when send_signal, wait or kill raises an error.
C12_StopAlwaysIdle ==
    [][\A t \in Threads :
          KillEnds(t) => /\ active_metadata' = [status |-> "IDLE", current |-> None]
                         /\ process' = None]_vars

\* The step in which get_status returns the pair (s_status, current).
StatusReturns == pc["api"] = "a189" /\ pc'["api"] = "idle"

\* C13: the pair a status query returns is (IDLE, null) or (LIVE, a url),
\* never (LIVE, null) and never (IDLE, non-null), however get_status
\* interleaves with start_ffmpeg and kill_ffmpeg.
C13_StatusSnapshot ==
    [][StatusReturns =>
          \/ (s_status = "IDLE" /\ active_metadata.current = None)
          \/ (s_status = "LIVE" /\ active_metadata.current /= None)]_vars

\* The step in which thread t's launch fails (Popen raises).
LaunchFails(t) == pc[t] = "p_open" /\ pc'[t] \notin {"p_open", "p_live"}

\* C14: a launch failure during a Start by source url is surfaced to the
\* caller -- the request does not run to its end, where it reports that the
\* stream started -- and a launch failure during a scheduler tick is raised
\* to no one: the tick goes on at line 128.
C14_FailureSurfaced ==
    [][/\ LaunchFails("api") => g_mode' /= "url"
       /\ LaunchFails("mon") => pc'["mon"] = "m128"]_vars

\* C15: when the launch fails in start_ffmpeg, and no launch of another
\* thread has succeeded between the kill_ffmpeg of this call and its lock,
\* the call returns with the phase IDLE, the current item null, no handle,
\* and the lock released.
C15_FailedLaunchIsIdle ==
    [][\A t \in Threads :
          (LaunchFails(t) /\ ~g_raced)
             => /\ active_metadata' = [status |-> "IDLE", current |-> None]
                /\ process' = None
                /\ lock' = "free"]_vars

\* C15's case: a Start by source url has returned after its launch failed;
\* nothing else has touched the engine, which is IDLE with no handle.
C15_Witness ==
    /\ g_mode = "url"
    /\ g_last = None
    /\ ~g_guard
    /\ pc = [t \in Threads |-> IF t = "mon" THEN "m111" ELSE IF t = "res" THEN "r162" ELSE "idle"]
    /\ LockFree
    /\ process = None
    /\ orphans = 0
    /\ active_metadata = [status |-> "IDLE", current |-> None]

\* The step that ends a scheduler tick whose launch failed: the store of
\* line 128.
FailedTickEnds == pc["mon"] = "m128w" /\ g_failed /\ pc'["mon"] /= "m128w"

\* C17: a scheduler tick whose launch fails leaves the engine idle and the
\* cursor on the triggering item, so that the next tick tries that item
\* again.
C17_FailedItemRetried ==
    [][/\ (LaunchFails("mon") /\ ~g_raced)
          => (active_metadata'.status = "IDLE" /\ process' = None)
       /\ FailedTickEnds => current_index' = m_idx]_vars

\* The queue holds a resolvable item the cursor reaches: at or after the
\* cursor, or anywhere when the queue loops.
WorkReachable ==
    \E k \in Resolvable(playlist_queue) : k > current_index \/ is_looping

\* C16: while auto mode is enabled and the queue holds a resolvable item the
\* cursor reaches, a state in which the transcoder is not alive is followed,
\* when the playlist_monitor thread is scheduled fairly, by the start of the
\* next resolvable item.  A thread that has ended is never scheduled again,
\* so in every such state the playlist_monitor thread has to be running
\* still: that much of the claim a finite run refutes.
C16_SchedulerPicksUp ==
    (/\ g_mode = "group"
     /\ ~stop_signal
     /\ WorkReachable
     /\ LockFree
     /\ ~(process /= None /\ proc_alive))
        => pc["mon"] /= "crashed"

\* The steps left to a thread before it releases the lock, by position; 0
\* at the positions outside the two critical sections.
StepsToRelease(p) ==
    CASE p = "k_term" -> 6
      [] p = "k_wait" -> 5
      [] p = "k_kill" -> 4
      [] p \in {"k_none", "p_open"} -> 3
      [] p \in {"k_idle", "p_live"} -> 2
      [] p \in {"k_cur", "p_cur"} -> 1
      [] OTHER -> 0

\* The thread that holds the lock is inside a critical section, and at the
\* wait of kill_ffmpeg it can take its next step whether or not the process
\* has exited.
HolderNeverWaits ==
    \A t \in Threads :
        /\ lock = t <=> StepsToRelease(pc[t]) > 0
        /\ pc[t] = "k_wait" => ENABLED kill_wait(t)

\* C18: every call of kill_ffmpeg terminates.  With a handle it first sends
\* SIGTERM, then waits, and sends the forced kill exactly when the process
\* is still alive at the end of the wait; the thread that holds the lock
\* never waits for the process and releases the lock within six steps, so the
\* callers blocked on the lock can proceed.
C18_StopIsBounded ==
    /\ []HolderNeverWaits
    /\ [][\A t \in Threads :
             pc'[t] /= pc[t] =>
                /\ pc[t] = "k_lock" => pc'[t] = (IF process /= None THEN "k_term" ELSE "k_idle")
                /\ pc[t] = "k_term" => pc'[t] = "k_wait"
                /\ pc[t] = "k_wait" => pc'[t] = (IF proc_alive THEN "k_kill" ELSE "k_none")
                /\ pc[t] = "k_kill" => (pc'[t] = "k_none" /\ ~proc_alive')
                /\ StepsToRelease(pc[t]) > 0
                      => StepsToRelease(pc'[t]) < StepsToRelease(pc[t])]_vars

\* C18's case: the resource guard's stop has waited out the grace period on a
\* process that did not exit and is about to send the forced kill, while the
\* scheduler and a control request wait for the lock.
C18_Witness ==
    /\ pc["res"] = "k_kill"
    /\ process /= None
    /\ proc_alive
    /\ pc["mon"] = "k_lock"
    /\ pc["api"] = "k_lock"

\* C19: in every reachable state in which the lock is not held, the status
\* is LIVE exactly when the handle is non-null, and the current item is
\* non-null exactly when the status is LIVE.
C19_MetadataFollowsHandle ==
    LockFree =>
        /\ active_metadata.status = "LIVE" <=> process /= None
        /\ active_metadata.current /= None <=> active_metadata.status = "LIVE"

\* C19's case: after a Start by group id, a stop by the resource guard and a
\* launch by the scheduler, the lock is free and the transcoder has exited by
\* itself: the handle is kept, and status and current item still say LIVE.
C19_Witness ==
    /\ g_mode = "group"
    /\ g_guard
    /\ g_last /= None
    /\ LockFree
    /\ process = g_last
    /\ ~proc_alive
    /\ active_metadata = [status |-> "LIVE", current |-> g_last]

\* The step in which a Start request that starts nothing is served: the
\* group id is not in the store (404), or the request names neither group
\* nor url.  (Served once more right away, it changes nothing at all.)
StartsNothing == g_mode' \in {"notfound", "noop"} /\ g_mode' /= g_mode

\* C20: a Start request naming a group id that is not in the store, and a
\* Start request with neither url nor group id, leave the queue, the cursor,
\* the loop flag, the handle and the phase unchanged; their only effect on
\* the engine is that auto mode is enabled again.
C20_FailedStartFrame ==
    [][StartsNothing
          => /\ stop_signal' = FALSE
             /\ UNCHANGED <<playlist_queue, current_index, is_looping>>
             /\ UNCHANGED <<process, proc_alive, orphans, active_metadata, lock>>
             /\ UNCHANGED <<db_vars, pc, url>>]_vars

\* C20's case: while a playlist plays its second item, a Start request for
\* an unknown group has been answered 404; queue, cursor, handle and phase
\* are those of the playlist.
C20_Witness ==
    /\ g_mode = "notfound"
    /\ pc["api"] = "idle"
    /\ ~stop_signal
    /\ Len(playlist_queue) = 2
    /\ current_index = 1
    /\ LockFree
    /\ process /= None
    /\ proc_alive
    /\ active_metadata = [status |-> "LIVE", current |-> process]

====
